---------------------------- MODULE Spec2Model ----------------------------
(***************************************************************************)
(* nanoPDB: the column-based PDB record parser (src/parser.rs), the        *)
(* hierarchy builder it drives and the containers Structure, Chain and     *)
(* Residue (src/structure.rs, src/chain.rs, src/residue.rs).               *)
(*                                                                         *)
(* Input lines are TLA+ strings, decoded column by column as the code      *)
(* does.  Lines are ASCII (the PDB format is): one byte per character, so  *)
(* str::len() and byte-offset slicing count characters.                    *)
(* Py<T> handles are indices into per-type heaps; an Option is a sequence  *)
(* of length 0 (None) or 1 (Some).                                         *)
(***************************************************************************)
EXTENDS Integers, Sequences, FiniteSets, TLC

\* Longest input, in lines, that the driver is followed through.
MaxLines == 3

\* Largest index the host passes to __getitem__.
MaxIndex == 2
\* Most children one iteration pass receives before the host ends it.
MaxGot == 3

---------------------------------------------------------------------------
\* Text primitives

\* &line[from..to]: 0-based, half-open
Slice(line, from, to) == SubSeq(line, from + 1, to)

\* line.chars().nth(n)
CharAt(line, n) == SubSeq(line, n + 1, n + 1)

RECURSIVE TrimStart(_)
TrimStart(s) ==
    IF Len(s) > 0 /\ SubSeq(s, 1, 1) = " " THEN TrimStart(SubSeq(s, 2, Len(s))) ELSE s

RECURSIVE TrimEnd(_)
TrimEnd(s) ==
    IF Len(s) > 0 /\ SubSeq(s, Len(s), Len(s)) = " "
    THEN TrimEnd(SubSeq(s, 1, Len(s) - 1)) ELSE s

\* str::trim(): the only whitespace of the alphabet is the space
Trim(s) == TrimEnd(TrimStart(s))

Digits == {"0", "1", "2", "3", "4", "5", "6", "7", "8", "9"}

DigitVal(c) ==
    CASE c = "0" -> 0 [] c = "1" -> 1 [] c = "2" -> 2 [] c = "3" -> 3
      [] c = "4" -> 4 [] c = "5" -> 5 [] c = "6" -> 6 [] c = "7" -> 7
      [] c = "8" -> 8 [] c = "9" -> 9

AllDigits(s) == \A i \in 1..Len(s) : SubSeq(s, i, i) \in Digits

RECURSIVE DigitsValue(_)
DigitsValue(s) ==
    IF Len(s) = 0 THEN 0
    ELSE 10 * DigitsValue(SubSeq(s, 1, Len(s) - 1)) + DigitVal(SubSeq(s, Len(s), Len(s)))

RECURSIVE Pow10(_)
Pow10(n) == IF n = 0 THEN 1 ELSE 10 * Pow10(n - 1)

ParseErr == [ok |-> FALSE, val |-> 0]

\* <usize as FromStr>::from_str: an optional '+', then one digit or more
ParseUsize(s) ==
    LET body == IF Len(s) > 0 /\ SubSeq(s, 1, 1) = "+" THEN SubSeq(s, 2, Len(s)) ELSE s
    IN  IF Len(body) > 0 /\ AllDigits(body)
        THEN [ok |-> TRUE, val |-> DigitsValue(body)]
        ELSE ParseErr

\* <isize as FromStr>::from_str: an optional '+' or '-', then one digit or more
ParseIsize(s) ==
    LET signed == Len(s) > 0 /\ SubSeq(s, 1, 1) \in {"+", "-"}
        neg    == Len(s) > 0 /\ SubSeq(s, 1, 1) = "-"
        body   == IF signed THEN SubSeq(s, 2, Len(s)) ELSE s
    IN  IF Len(body) > 0 /\ AllDigits(body)
        THEN [ok |-> TRUE, val |-> IF neg THEN 0 - DigitsValue(body) ELSE DigitsValue(body)]
        ELSE ParseErr

RECURSIVE Normal(_, _)
\* the decimal m * 10^-e with no trailing fractional zero
Normal(m, e) == IF e > 0 /\ m % 10 = 0 THEN Normal(m \div 10, e - 1) ELSE <<m, e>>

DotAt(s) == IF \E i \in 1..Len(s) : SubSeq(s, i, i) = "."
            THEN CHOOSE i \in 1..Len(s) : SubSeq(s, i, i) = "." /\
                        \A j \in 1..(i - 1) : SubSeq(s, j, j) # "."
            ELSE 0

\* <f64 as FromStr>::from_str on the alphabet of digits, '.', '+', '-' and
\* non-numeric letters other than those of an exponent, "inf" or "nan":
\* an optional sign, then digits with at most one '.', one digit at least.
\* The value is the exact decimal <<m, e>> = m * 10^-e.
ParseF64(s) ==
    LET signed == Len(s) > 0 /\ SubSeq(s, 1, 1) \in {"+", "-"}
        neg    == Len(s) > 0 /\ SubSeq(s, 1, 1) = "-"
        body   == IF signed THEN SubSeq(s, 2, Len(s)) ELSE s
        dot    == DotAt(body)
        whole  == IF dot = 0 THEN body ELSE SubSeq(body, 1, dot - 1)
        frac   == IF dot = 0 THEN "" ELSE SubSeq(body, dot + 1, Len(body))
        m      == DigitsValue(whole) * Pow10(Len(frac)) + DigitsValue(frac)
    IN  IF Len(whole) + Len(frac) > 0 /\ AllDigits(whole) /\ AllDigits(frac)
        THEN [ok |-> TRUE, val |-> Normal(IF neg THEN 0 - m ELSE m, Len(frac))]
        ELSE ParseErr

---------------------------------------------------------------------------
\* The object tree.  A world is the Structure under construction with the
\* heaps that hold the Python-owned Chain, Residue and Atom objects.

None == <<>>
Some(x) == <<x>>

\* isize::MIN.  The 32-bit value: the 64-bit one, -2^63, is outside TLC's
\* integers.  Both lie below every number a 4-column field decodes to.
isize_MIN == (0 - 2147483647) - 1

\* Structure::new: #[derive(Default)]
Structure_new ==
    [pdbid |-> "", classification |-> "", date |-> "",
     unit_cell |-> None, chains |-> <<>>, current_index |-> 0]

World_new ==
    [structure |-> Structure_new, chainHeap |-> <<>>, residueHeap |-> <<>>,
     atomHeap |-> <<>>]

Chain_new(name) == [name |-> name, residues |-> <<>>, current_index |-> 0]

Residue_new(number, name) ==
    [number |-> number, name |-> name, atoms |-> <<>>, current_index |-> 0]

Atom_new(label, number, name, element, position, occupancy) ==
    [label |-> label, number |-> number, name |-> name, element |-> element,
     position |-> position, occupancy |-> occupancy]

UnitCell_new(a, b, c, alpha, beta, gamma) ==
    [a |-> a, b |-> b, c |-> c, alpha |-> alpha, beta |-> beta, gamma |-> gamma]

\* A step of the builder either completes or panics (unwrap / expect).
Done(w) == [panic |-> FALSE, w |-> w]
Panicked(w) == [panic |-> TRUE, w |-> w]

\* v.last().unwrap().as_ref().expect(..) succeeds
LastOwned(slots) == Len(slots) > 0 /\ slots[Len(slots)] # None
LastRef(slots) == slots[Len(slots)][1]

set_header(w, pdbid, classification, date) ==
    [w EXCEPT !.structure.pdbid = pdbid,
              !.structure.classification = classification,
              !.structure.date = date]

\* a variant of set_unit_cell that keeps a unit cell already set
set_unit_cell_keep_first(w, unit_cell) ==
    IF w.structure.unit_cell = None
    THEN [w EXCEPT !.structure.unit_cell = Some(unit_cell)]
    ELSE w

set_unit_cell(w, unit_cell) == [w EXCEPT !.structure.unit_cell = Some(unit_cell)]

\* a variant of Residue_add_atom that inserts at the front
Residue_add_atom_front(w, r, atom) ==
    LET a == Len(w.atomHeap) + 1
    IN  [w EXCEPT !.atomHeap = Append(@, atom),
                  !.residueHeap[r].atoms = <<Some(a)>> \o @]

Residue_add_atom(w, r, atom) ==
    LET a == Len(w.atomHeap) + 1
    IN  [w EXCEPT !.atomHeap = Append(@, atom),
                  !.residueHeap[r].atoms = Append(@, Some(a))]

Chain_add_atom(w, c, atom) ==
    IF LastOwned(w.chainHeap[c].residues)
    THEN Done(Residue_add_atom(w, LastRef(w.chainHeap[c].residues), atom))
    ELSE Panicked(w)

\* a variant of Chain_add_residue that inserts the residue at the front
Chain_add_residue_front(w, c, residue) ==
    LET r == Len(w.residueHeap) + 1
    IN  [w EXCEPT !.residueHeap = Append(@, residue),
                  !.chainHeap[c].residues = <<Some(r)>> \o @]

Chain_add_residue(w, c, residue) ==
    LET r == Len(w.residueHeap) + 1
    IN  [w EXCEPT !.residueHeap = Append(@, residue),
                  !.chainHeap[c].residues = Append(@, Some(r))]

\* a variant of Structure_add_atom that appends to the first chain
Structure_add_atom_first_chain(w, atom) ==
    IF Len(w.structure.chains) > 0 /\ w.structure.chains[1] # None
    THEN Chain_add_atom(w, w.structure.chains[1][1], atom)
    ELSE Panicked(w)

Structure_add_atom(w, atom) ==
    IF LastOwned(w.structure.chains)
    THEN Chain_add_atom(w, LastRef(w.structure.chains), atom)
    ELSE Panicked(w)

Structure_add_residue(w, residue) ==
    IF LastOwned(w.structure.chains)
    THEN Done(Chain_add_residue(w, LastRef(w.structure.chains), residue))
    ELSE Panicked(w)

\* a variant of Structure_add_chain that looks back for a chain of the same
\* name and continues it
Structure_add_chain_merge(w, chain) ==
    IF \E c \in DOMAIN w.chainHeap : w.chainHeap[c].name = chain.name
    THEN LET c == CHOOSE c \in DOMAIN w.chainHeap : w.chainHeap[c].name = chain.name
         IN  [w EXCEPT !.structure.chains = Append(@, Some(c))]
    ELSE LET c == Len(w.chainHeap) + 1
         IN  [w EXCEPT !.chainHeap = Append(@, chain),
                       !.structure.chains = Append(@, Some(c))]

Structure_add_chain(w, chain) ==
    LET c == Len(w.chainHeap) + 1
    IN  [w EXCEPT !.chainHeap = Append(@, chain),
                  !.structure.chains = Append(@, Some(c))]

---------------------------------------------------------------------------
\* The parser.  A parser state is the world with the two scalars carried by
\* parse_pdb; an outcome adds how the call ended.

LabelTooShort  == "label field error"
HeaderTooShort == "HEADER line to short"
Cryst1TooShort == "CRYST1 line to short"
AtomTooShort   == "ATOM/HETATM line to short"
FieldParse     == "cannot parse numeric"

RecordTooShort == {HeaderTooShort, Cryst1TooShort, AtomTooShort}

HEADER_MIN == 66
CRYST1_MIN == 54
ATOM_MIN   == 78

Pending == [kind |-> "Pending", line |-> 0, msg |-> ""]
Ok      == [kind |-> "Ok", line |-> 0, msg |-> ""]
Panic   == [kind |-> "Panic", line |-> 0, msg |-> ""]
\* a variant of Err that reports the 0-based position
Err_position(line_number, msg) == [kind |-> "Err", line |-> line_number, msg |-> msg]

\* PyException::new_err(format!("error in line: {}, ...", line_number + 1))
Err(line_number, msg) == [kind |-> "Err", line |-> line_number + 1, msg |-> msg]

\* parse_numeric::<T>: slice, trim, parse, for the three T it is used at
parse_numeric_usize(line, from, to) == ParseUsize(Trim(Slice(line, from, to)))
parse_numeric_isize(line, from, to) == ParseIsize(Trim(Slice(line, from, to)))
parse_numeric_f64(line, from, to)   == ParseF64(Trim(Slice(line, from, to)))

\* lines 148-150 of parse_header_into: the fields of a HEADER record
header_fields(line) ==
    [pdbid |-> Trim(Slice(line, 62, 66)),
     classification |-> Trim(Slice(line, 10, 50)),
     date |-> Trim(Slice(line, 50, 59))]

\* a variant of parse_header_into that skips a HEADER line that is too short
parse_header_into_skip_short(ps, line, line_number) ==
    IF Len(line) < HEADER_MIN
    THEN ps
    ELSE LET f == header_fields(line)
         IN  [ps EXCEPT !.w = set_header(@, f.pdbid, f.classification, f.date)]

parse_header_into(ps, line, line_number) ==
    IF Len(line) < HEADER_MIN
    THEN [ps EXCEPT !.result = Err(line_number, HeaderTooShort)]
    ELSE LET f == header_fields(line)
         IN  [ps EXCEPT !.w = set_header(@, f.pdbid, f.classification, f.date)]

\* lines 171-178 of parse_cryst1_into: the fields of a CRYST1 record
cryst1_fields(line) ==
    LET a     == parse_numeric_f64(line, 6, 15)
        b     == parse_numeric_f64(line, 15, 24)
        c     == parse_numeric_f64(line, 24, 33)
        alpha == parse_numeric_f64(line, 33, 40)
        beta  == parse_numeric_f64(line, 40, 47)
        gamma == parse_numeric_f64(line, 47, 54)
    IN  [ok |-> a.ok /\ b.ok /\ c.ok /\ alpha.ok /\ beta.ok /\ gamma.ok,
         unit_cell |-> UnitCell_new(a.val, b.val, c.val, alpha.val, beta.val, gamma.val)]

parse_cryst1_into(ps, line, line_number) ==
    IF Len(line) < CRYST1_MIN
    THEN [ps EXCEPT !.result = Err(line_number, Cryst1TooShort)]
    ELSE LET f == cryst1_fields(line)
         IN  IF f.ok
             THEN [ps EXCEPT !.w = set_unit_cell(@, f.unit_cell)]
             ELSE [ps EXCEPT !.result = Err(line_number, FieldParse)]

\* a variant of build_atom that compares the chain identifier first
build_atom_chain_first(ps, atom, residue_name, chain_name, residue_number) ==
    IF ps.current_chain_name # chain_name
    THEN LET w1 == Structure_add_chain(ps.w, Chain_new(chain_name))
             r2 == Structure_add_residue(w1, Residue_new(residue_number, residue_name))
             r3 == Structure_add_atom(r2.w, atom)
         IN  IF r2.panic \/ r3.panic THEN [ps EXCEPT !.result = Panic]
             ELSE [ps EXCEPT !.w = r3.w, !.current_chain_name = chain_name,
                             !.current_residue_number = residue_number]
    ELSE IF ps.current_residue_number = residue_number
    THEN LET r == Structure_add_atom(ps.w, atom)
         IN  IF r.panic THEN [ps EXCEPT !.result = Panic]
             ELSE [ps EXCEPT !.w = r.w]
    ELSE LET r1 == Structure_add_residue(ps.w, Residue_new(residue_number, residue_name))
             r2 == Structure_add_atom(r1.w, atom)
         IN  IF r1.panic \/ r2.panic THEN [ps EXCEPT !.result = Panic]
             ELSE [ps EXCEPT !.w = r2.w, !.current_residue_number = residue_number]

\* lines 221-240 of parse_atom_into: the three branches of the builder
build_atom(ps, atom, residue_name, chain_name, residue_number) ==
    IF ps.current_residue_number = residue_number
    THEN LET r == Structure_add_atom(ps.w, atom)
         IN  IF r.panic THEN [ps EXCEPT !.result = Panic]
             ELSE [ps EXCEPT !.w = r.w]
    ELSE IF ps.current_chain_name = chain_name
    THEN LET r1 == Structure_add_residue(ps.w, Residue_new(residue_number, residue_name))
             r2 == Structure_add_atom(r1.w, atom)
         IN  IF r1.panic \/ r2.panic THEN [ps EXCEPT !.result = Panic]
             ELSE [ps EXCEPT !.w = r2.w, !.current_residue_number = residue_number]
    ELSE LET w1 == Structure_add_chain(ps.w, Chain_new(chain_name))
             r2 == Structure_add_residue(w1, Residue_new(residue_number, residue_name))
             r3 == Structure_add_atom(r2.w, atom)
         IN  IF r2.panic \/ r3.panic THEN [ps EXCEPT !.result = Panic]
             ELSE [ps EXCEPT !.w = r3.w, !.current_chain_name = chain_name,
                             !.current_residue_number = residue_number]

\* lines 201-219 of parse_atom_into: the fields of an atom record
atom_fields(line, label) ==
    LET atom_number    == parse_numeric_usize(line, 6, 11)
        atom_name      == Trim(Slice(line, 12, 16))
        residue_name   == Slice(line, 17, 20)
        chain_name     == CharAt(line, 21)
        residue_number == parse_numeric_isize(line, 22, 26)
        atom_pos_x     == parse_numeric_f64(line, 30, 38)
        atom_pos_y     == parse_numeric_f64(line, 38, 46)
        atom_pos_z     == parse_numeric_f64(line, 46, 54)
        atom_occupancy == parse_numeric_f64(line, 54, 60)
        atom_element   == Trim(Slice(line, 76, 78))
    IN  [ok |-> atom_number.ok /\ residue_number.ok /\ atom_pos_x.ok /\ atom_pos_y.ok
                /\ atom_pos_z.ok /\ atom_occupancy.ok,
         atom |-> Atom_new(label, atom_number.val, atom_name, atom_element,
                           <<atom_pos_x.val, atom_pos_y.val, atom_pos_z.val>>,
                           atom_occupancy.val),
         residue_name |-> residue_name,
         chain_name |-> chain_name,
         residue_number |-> residue_number.val]

parse_atom_into(ps, line, line_number, label) ==
    IF Len(line) < ATOM_MIN
    THEN [ps EXCEPT !.result = Err(line_number, AtomTooShort)]
    ELSE LET f == atom_fields(line, label)
         IN  IF f.ok
             THEN build_atom(ps, f.atom, f.residue_name, f.chain_name, f.residue_number)
             ELSE [ps EXCEPT !.result = Err(line_number, FieldParse)]

\* a variant of parse_pdb_line in which a line of no known label ends the
\* current residue
parse_pdb_line_other_resets(ps, line, line_number) ==
    IF Len(line) < 6
    THEN [ps EXCEPT !.result = Err(line_number, LabelTooShort)]
    ELSE IF Slice(line, 0, 4) = "ATOM"
    THEN parse_atom_into(ps, line, line_number, "ATOM")
    ELSE IF Slice(line, 0, 6) = "HETATM"
    THEN parse_atom_into(ps, line, line_number, "HETATM")
    ELSE IF Slice(line, 0, 6) = "HEADER"
    THEN parse_header_into(ps, line, line_number)
    ELSE IF Slice(line, 0, 6) = "CRYST1"
    THEN parse_cryst1_into(ps, line, line_number)
    ELSE [ps EXCEPT !.current_residue_number = isize_MIN]

\* a variant of parse_pdb_line that looks for the 4-character label before
\* it requires 6 characters
parse_pdb_line_label_first(ps, line, line_number) ==
    IF Len(line) >= 4 /\ Slice(line, 0, 4) = "ATOM"
    THEN parse_atom_into(ps, line, line_number, "ATOM")
    ELSE IF Len(line) < 6
    THEN [ps EXCEPT !.result = Err(line_number, LabelTooShort)]
    ELSE IF Slice(line, 0, 6) = "HETATM"
    THEN parse_atom_into(ps, line, line_number, "HETATM")
    ELSE IF Slice(line, 0, 6) = "HEADER"
    THEN parse_header_into(ps, line, line_number)
    ELSE IF Slice(line, 0, 6) = "CRYST1"
    THEN parse_cryst1_into(ps, line, line_number)
    ELSE ps

\* One iteration of the loop of parse_pdb, lines 253-284
parse_pdb_line(ps, line, line_number) ==
    IF Len(line) < 6
    THEN [ps EXCEPT !.result = Err(line_number, LabelTooShort)]
    ELSE IF Slice(line, 0, 4) = "ATOM"
    THEN parse_atom_into(ps, line, line_number, "ATOM")
    ELSE IF Slice(line, 0, 6) = "HETATM"
    THEN parse_atom_into(ps, line, line_number, "HETATM")
    ELSE IF Slice(line, 0, 6) = "HEADER"
    THEN parse_header_into(ps, line, line_number)
    ELSE IF Slice(line, 0, 6) = "CRYST1"
    THEN parse_cryst1_into(ps, line, line_number)
    ELSE ps

\* parse_pdb, lines 247-250: the state before the first line
parse_pdb_start ==
    [w |-> World_new, current_chain_name |-> " ",
     current_residue_number |-> isize_MIN, result |-> Pending]

\* parse_pdb on a whole input: the loop until the first error, then Ok
RECURSIVE parse_pdb_from(_, _, _)
parse_pdb_from(ps, lines, line_number) ==
    IF ps.result # Pending THEN ps
    ELSE IF line_number = Len(lines) THEN [ps EXCEPT !.result = Ok]
    ELSE parse_pdb_from(parse_pdb_line(ps, lines[line_number + 1], line_number),
                        lines, line_number + 1)

parse_pdb(lines) == parse_pdb_from(parse_pdb_start, lines, 0)

---------------------------------------------------------------------------
\* Input lines, laid out in the columns of the PDB format

RECURSIVE Spaces(_)
Spaces(n) == IF n = 0 THEN "" ELSE " " \o Spaces(n - 1)

\* columns 0-6 label, 6-11 serial, 12-16 atom name, 17-20 residue name,
\* 21 chain, 22-26 residue number, 30-54 x y z, 54-60 occupancy,
\* 60-66 temperature factor, 76-78 element
AtomLine(label, serial, name, resName, chain, resSeq, x, y, z, occ, element) ==
    label \o serial \o " " \o name \o " " \o resName \o " " \o chain \o resSeq
          \o Spaces(4) \o x \o y \o z \o occ \o "  0.00" \o Spaces(10) \o element

\* columns 0-6 label, 10-50 classification, 50-59 date, 62-66 pdbid
HeaderLine(classification, date, pdbid) ==
    "HEADER" \o Spaces(4) \o classification \o Spaces(40 - Len(classification))
             \o date \o Spaces(3) \o pdbid

\* columns 0-6 label, 6-33 a b c, 33-54 alpha beta gamma
Cryst1Line(a, b, c, alpha, beta, gamma) ==
    "CRYST1" \o a \o b \o c \o alpha \o beta \o gamma

LineA10N  == AtomLine("ATOM  ", "    1", " N  ", "ALA", "A", "  10",
                      "  11.104", "   6.134", "  -6.504", "  1.00", " N")
LineA10CA == AtomLine("ATOM  ", "    2", " CA ", "ALA", "A", "  10",
                      "  11.639", "   6.071", "  -5.147", "  1.00", " C")
LineA11   == AtomLine("ATOM  ", "    3", " N  ", "GLY", "A", "  11",
                      "  12.5  ", "+7.25   ", "      .5", "  0.50", " N") \o "1-"
LineB10   == AtomLine("ATOM  ", "    4", " N  ", "SER", "B", "  10",
                      "   9.000", "   1.000", "   2.000", "  1.00", " N")
LineB11   == AtomLine("HETATM", "    5", "ZN  ", " ZN", "B", "  11",
                      "   3.000", "   4.000", "   5.000", "  1.00", "ZN")
LineBlank == AtomLine("HETATM", "    6", " O  ", "HOH", " ", "  10",
                      "   1.000", "   2.000", "   3.000", "  1.00", " O")
LineBadResidue == AtomLine("ATOM  ", "    7", " N  ", "ALA", "A", " 1X ",
                      "  11.104", "   6.134", "  -6.504", "  1.00", " N")
LineBadSerial  == AtomLine("HETATM", "   -8", " O  ", "HOH", "B", "  10",
                      "   1.000", "   2.000", "   3.000", "  1.00", " O")
LineBadCoord   == AtomLine("ATOM  ", "    9", " N  ", "ALA", "B", "  11",
                      "   1.000", "  1.0.0 ", "   3.000", "  1.00", " N")

LineHeader1 == HeaderLine("LIPID BINDING PROTEIN", "26-APR-05", "1ZHY")
LineHeader2 == HeaderLine("HYDROLASE", "01-JAN-99", "2ABC") \o Spaces(14)

LineCryst1  == Cryst1Line("   52.000", "   58.600", "   61.900",
                          "  90.00", "  90.00", "  90.00")
LineCryst2  == Cryst1Line("   10.5  ", "   20.000", "   30.000",
                          "  90.00", " 101.25", "  90.00") \o " P 21 21 21    8"
LineCrystBad == Cryst1Line("   52.000", "   58.600", "   61.900",
                          "  90.00", "  XX.00", "  90.00")

\* every line an input is made of
Lines ==
    {LineA10N, LineA10CA, LineA11, LineB10, LineB11, LineBlank,
     LineBadResidue, LineBadSerial, LineBadCoord,
     SubSeq(LineA10N, 1, 77), SubSeq(LineBadSerial, 1, 77),
     "ATOM  ", "ATOM",
     LineHeader1, LineHeader2, SubSeq(LineHeader1, 1, 65),
     LineCryst1, LineCryst2, LineCrystBad, SubSeq(LineCryst1, 1, 53),
     "REMARK   2 RESOLUTION.    1.60 ANGSTROMS.", "END   ", "END", "TER", ""}

---------------------------------------------------------------------------
\* The state machine of one call of parse_pdb

VARIABLES
    content,                    \* the lines of the input read so far
    structure,                  \* the Structure
    chainHeap,                  \* the Chain objects, by handle
    residueHeap,                \* the Residue objects, by handle
    atomHeap,                   \* the Atom objects, by handle
    current_chain_name,         \* carried by parse_pdb
    current_residue_number,     \* carried by parse_pdb
    result,                     \* how parse_pdb ended, Pending until then
    ret,                        \* what the last call on a container returned
    passes                      \* the host's iteration passes over one container

vars == <<content, structure, chainHeap, residueHeap, atomHeap,
          current_chain_name, current_residue_number, result, ret, passes>>

treeVars == <<structure, chainHeap, residueHeap, atomHeap>>

\* no call on a container yet
NoCall ==
    [op |-> "none", on |-> [type |-> "none", ref |-> 0], arg |-> 0,
     kind |-> "none", val |-> <<>>, n |-> 0]

\* the two passes a host can have in progress, as in a nested for loop
Passes == {"outer", "inner"}

\* no pass begun: a pass holds the iterator __iter__ returned (on), where its
\* loop stands (pc) and the children __next__ has handed to it (got)
NoPasses ==
    [p \in Passes |-> [on |-> [type |-> "none", ref |-> 0], pc |-> "idle", got |-> <<>>]]

\* the parser state the variables hold
PS ==
    [w |-> [structure |-> structure, chainHeap |-> chainHeap,
            residueHeap |-> residueHeap, atomHeap |-> atomHeap],
     current_chain_name |-> current_chain_name,
     current_residue_number |-> current_residue_number,
     result |-> result]

SetPS(ps) ==
    /\ structure' = ps.w.structure
    /\ chainHeap' = ps.w.chainHeap
    /\ residueHeap' = ps.w.residueHeap
    /\ atomHeap' = ps.w.atomHeap
    /\ current_chain_name' = ps.current_chain_name
    /\ current_residue_number' = ps.current_residue_number
    /\ result' = ps.result

Init ==
    /\ content = <<>>
    /\ structure = parse_pdb_start.w.structure
    /\ chainHeap = parse_pdb_start.w.chainHeap
    /\ residueHeap = parse_pdb_start.w.residueHeap
    /\ atomHeap = parse_pdb_start.w.atomHeap
    /\ current_chain_name = parse_pdb_start.current_chain_name
    /\ current_residue_number = parse_pdb_start.current_residue_number
    /\ result = parse_pdb_start.result
    /\ ret = NoCall
    /\ passes = NoPasses

\* the loop takes the next line of the input
NextLine ==
    /\ result = Pending
    /\ Len(content) < MaxLines
    /\ \E line \in Lines :
          /\ content' = Append(content, line)
          /\ SetPS(parse_pdb_line(PS, line, Len(content)))
    /\ UNCHANGED <<ret, passes>>

\* the input is exhausted: Ok(structure)
EndOfInput ==
    /\ result = Pending
    /\ result' = Ok
    /\ UNCHANGED <<content, treeVars, current_chain_name, current_residue_number, ret, passes>>

Next == NextLine \/ EndOfInput

Spec == Init /\ [][Next]_vars

---------------------------------------------------------------------------
\* The containers, as the host sees them once parse_pdb has returned.
\* A call returns a child, a length, the objects visited, the iterator
\* (__iter__ returns the container itself), an IndexError,
\* StopIteration (None), or it panics in expect().

Obj(type, ref) == [type |-> type, ref |-> ref]
TheStructure == Obj("Structure", 0)
TheUnitCell  == Obj("UnitCell", 0)

Returned(kind, val, n) == [kind |-> kind, val |-> val, n |-> n]

RECURSIVE Owned(_, _)
\* the objects of the owned slots, in slot order: what __traverse__ visits
Owned(slots, type) ==
    IF slots = <<>> THEN <<>>
    ELSE LET rest == Owned(Tail(slots), type)
         IN  IF Head(slots) # None THEN <<Obj(type, Head(slots)[1])>> \o rest ELSE rest

AllNone(slots) == [i \in 1..Len(slots) |-> None]

Structure_clear(s) == [s EXCEPT !.unit_cell = None, !.chains = AllNone(@)]

\* a variant of Chain_clear that empties the vector (Vec::clear)
Chain_clear_truncate(c) == [c EXCEPT !.residues = <<>>]

Chain_clear(c)     == [c EXCEPT !.residues = AllNone(@)]
Residue_clear(r)   == [r EXCEPT !.atoms = AllNone(@)]

Structure_getitem(s, index) ==
    IF index < Len(s.chains)
    THEN IF s.chains[index + 1] # None
         THEN Returned("child", <<Obj("Chain", s.chains[index + 1][1])>>, 0)
         ELSE Returned("panic", <<>>, 0)
    ELSE Returned("IndexError", <<>>, 0)

\* a variant of Chain_getitem that returns the last child for every valid index
Chain_getitem_last(c, index) ==
    IF index < Len(c.residues)
    THEN IF c.residues[Len(c.residues)] # None
         THEN Returned("child", <<Obj("Residue", c.residues[Len(c.residues)][1])>>, 0)
         ELSE Returned("panic", <<>>, 0)
    ELSE Returned("IndexError", <<>>, 0)

Chain_getitem(c, index) ==
    IF index < Len(c.residues)
    THEN IF c.residues[index + 1] # None
         THEN Returned("child", <<Obj("Residue", c.residues[index + 1][1])>>, 0)
         ELSE Returned("panic", <<>>, 0)
    ELSE Returned("IndexError", <<>>, 0)

Residue_getitem(r, index) ==
    IF index < Len(r.atoms)
    THEN IF r.atoms[index + 1] # None
         THEN Returned("child", <<Obj("Atom", r.atoms[index + 1][1])>>, 0)
         ELSE Returned("panic", <<>>, 0)
    ELSE Returned("IndexError", <<>>, 0)

Structure_iter(s) == [s EXCEPT !.current_index = 0]

\* a variant of Chain_iter that hands out the iterator without rewinding it
Chain_iter_keep(c) == c

Chain_iter(c)     == [c EXCEPT !.current_index = 0]
Residue_iter(r)   == [r EXCEPT !.current_index = 0]

Structure_len(s) == Len(s.chains)
Chain_len(c)     == Len(c.residues)
Residue_len(r)   == Len(r.atoms)

\* __next__: the cursor moves before the slot is read
Structure_next(s) ==
    IF s.current_index < Len(s.chains)
    THEN [self |-> [s EXCEPT !.current_index = @ + 1],
          ret  |-> IF s.chains[s.current_index + 1] # None
                   THEN Returned("child", <<Obj("Chain", s.chains[s.current_index + 1][1])>>, 0)
                   ELSE Returned("panic", <<>>, 0)]
    ELSE [self |-> s, ret |-> Returned("StopIteration", <<>>, 0)]

Chain_next(c) ==
    IF c.current_index < Len(c.residues)
    THEN [self |-> [c EXCEPT !.current_index = @ + 1],
          ret  |-> IF c.residues[c.current_index + 1] # None
                   THEN Returned("child", <<Obj("Residue", c.residues[c.current_index + 1][1])>>, 0)
                   ELSE Returned("panic", <<>>, 0)]
    ELSE [self |-> c, ret |-> Returned("StopIteration", <<>>, 0)]

\* a variant of Residue_next that rewinds the cursor when the pass is exhausted
Residue_next_rewind(r) ==
    IF r.current_index < Len(r.atoms)
    THEN [self |-> [r EXCEPT !.current_index = @ + 1],
          ret  |-> IF r.atoms[r.current_index + 1] # None
                   THEN Returned("child", <<Obj("Atom", r.atoms[r.current_index + 1][1])>>, 0)
                   ELSE Returned("panic", <<>>, 0)]
    ELSE [self |-> [r EXCEPT !.current_index = 0], ret |-> Returned("StopIteration", <<>>, 0)]

Residue_next(r) ==
    IF r.current_index < Len(r.atoms)
    THEN [self |-> [r EXCEPT !.current_index = @ + 1],
          ret  |-> IF r.atoms[r.current_index + 1] # None
                   THEN Returned("child", <<Obj("Atom", r.atoms[r.current_index + 1][1])>>, 0)
                   ELSE Returned("panic", <<>>, 0)]
    ELSE [self |-> r, ret |-> Returned("StopIteration", <<>>, 0)]

\* a variant of Structure_traverse that visits the chains only
Structure_traverse_chains_only(s) == Owned(s.chains, "Chain")

Structure_traverse(s) ==
    (IF s.unit_cell # None THEN <<TheUnitCell>> ELSE <<>>) \o Owned(s.chains, "Chain")
Chain_traverse(c)   == Owned(c.residues, "Residue")
Residue_traverse(r) == Owned(r.atoms, "Atom")

---------------------------------------------------------------------------
\* The state machine of the host's calls on the containers of a Structure
\* that parse_pdb returned.  The collector may clear any container at any time.

Indices == 0..MaxIndex

Call(op, on, arg, r) ==
    [op |-> op, on |-> on, arg |-> arg, kind |-> r.kind, val |-> r.val, n |-> r.n]

Nothing == Returned("none", <<>>, 0)

parserVars == <<content, current_chain_name, current_residue_number, result>>

\* the inputs whose Structures the host works on
ContainerInputs ==
    {<<>>,
     <<LineCryst1, LineA10N, LineA11>>,
     <<LineHeader1, LineA10N, LineA10CA>>}

InitContainers ==
    \E input \in ContainerInputs :
        LET ps == parse_pdb(input)
        IN  /\ content = input
            /\ structure = ps.w.structure
            /\ chainHeap = ps.w.chainHeap
            /\ residueHeap = ps.w.residueHeap
            /\ atomHeap = ps.w.atomHeap
            /\ current_chain_name = ps.current_chain_name
            /\ current_residue_number = ps.current_residue_number
            /\ result = ps.result
            /\ ret = NoCall
            /\ passes = NoPasses

StructureGetitem ==
    /\ result = Ok
    /\ \E index \in Indices :
          ret' = Call("__getitem__", TheStructure, index, Structure_getitem(structure, index))
    /\ UNCHANGED <<parserVars, passes, treeVars>>

ChainGetitem ==
    /\ result = Ok
    /\ \E c \in DOMAIN chainHeap, index \in Indices :
          ret' = Call("__getitem__", Obj("Chain", c), index, Chain_getitem(chainHeap[c], index))
    /\ UNCHANGED <<parserVars, passes, treeVars>>

ResidueGetitem ==
    /\ result = Ok
    /\ \E r \in DOMAIN residueHeap, index \in Indices :
          ret' = Call("__getitem__", Obj("Residue", r), index,
                      Residue_getitem(residueHeap[r], index))
    /\ UNCHANGED <<parserVars, passes, treeVars>>

StructureIter ==
    /\ result = Ok
    /\ structure' = Structure_iter(structure)
    /\ ret' = Call("__iter__", TheStructure, 0, Returned("iterator", <<TheStructure>>, 0))
    /\ UNCHANGED <<parserVars, passes, chainHeap, residueHeap, atomHeap>>

ChainIter ==
    /\ result = Ok
    /\ \E c \in DOMAIN chainHeap :
          /\ chainHeap' = [chainHeap EXCEPT ![c] = Chain_iter(@)]
          /\ ret' = Call("__iter__", Obj("Chain", c), 0,
                      Returned("iterator", <<Obj("Chain", c)>>, 0))
    /\ UNCHANGED <<parserVars, passes, structure, residueHeap, atomHeap>>

ResidueIter ==
    /\ result = Ok
    /\ \E r \in DOMAIN residueHeap :
          /\ residueHeap' = [residueHeap EXCEPT ![r] = Residue_iter(@)]
          /\ ret' = Call("__iter__", Obj("Residue", r), 0,
                      Returned("iterator", <<Obj("Residue", r)>>, 0))
    /\ UNCHANGED <<parserVars, passes, structure, chainHeap, atomHeap>>

StructureLen ==
    /\ result = Ok
    /\ ret' = Call("__len__", TheStructure, 0, Returned("len", <<>>, Structure_len(structure)))
    /\ UNCHANGED <<parserVars, passes, treeVars>>

ChainLen ==
    /\ result = Ok
    /\ \E c \in DOMAIN chainHeap :
          ret' = Call("__len__", Obj("Chain", c), 0,
                      Returned("len", <<>>, Chain_len(chainHeap[c])))
    /\ UNCHANGED <<parserVars, passes, treeVars>>

ResidueLen ==
    /\ result = Ok
    /\ \E r \in DOMAIN residueHeap :
          ret' = Call("__len__", Obj("Residue", r), 0,
                      Returned("len", <<>>, Residue_len(residueHeap[r])))
    /\ UNCHANGED <<parserVars, passes, treeVars>>

StructureNext ==
    /\ result = Ok
    /\ structure' = Structure_next(structure).self
    /\ ret' = Call("__next__", TheStructure, 0, Structure_next(structure).ret)
    /\ UNCHANGED <<parserVars, passes, chainHeap, residueHeap, atomHeap>>

ChainNext ==
    /\ result = Ok
    /\ \E c \in DOMAIN chainHeap :
          /\ chainHeap' = [chainHeap EXCEPT ![c] = Chain_next(@).self]
          /\ ret' = Call("__next__", Obj("Chain", c), 0, Chain_next(chainHeap[c]).ret)
    /\ UNCHANGED <<parserVars, passes, structure, residueHeap, atomHeap>>

ResidueNext ==
    /\ result = Ok
    /\ \E r \in DOMAIN residueHeap :
          /\ residueHeap' = [residueHeap EXCEPT ![r] = Residue_next(@).self]
          /\ ret' = Call("__next__", Obj("Residue", r), 0, Residue_next(residueHeap[r]).ret)
    /\ UNCHANGED <<parserVars, passes, structure, chainHeap, atomHeap>>

StructureClear ==
    /\ result = Ok
    /\ structure' = Structure_clear(structure)
    /\ ret' = Call("__clear__", TheStructure, 0, Nothing)
    /\ UNCHANGED <<parserVars, passes, chainHeap, residueHeap, atomHeap>>

ChainClear ==
    /\ result = Ok
    /\ \E c \in DOMAIN chainHeap :
          /\ chainHeap' = [chainHeap EXCEPT ![c] = Chain_clear(@)]
          /\ ret' = Call("__clear__", Obj("Chain", c), 0, Nothing)
    /\ UNCHANGED <<parserVars, passes, structure, residueHeap, atomHeap>>

ResidueClear ==
    /\ result = Ok
    /\ \E r \in DOMAIN residueHeap :
          /\ residueHeap' = [residueHeap EXCEPT ![r] = Residue_clear(@)]
          /\ ret' = Call("__clear__", Obj("Residue", r), 0, Nothing)
    /\ UNCHANGED <<parserVars, passes, structure, chainHeap, atomHeap>>

StructureTraverse ==
    /\ result = Ok
    /\ ret' = Call("__traverse__", TheStructure, 0,
                   Returned("visited", Structure_traverse(structure), 0))
    /\ UNCHANGED <<parserVars, passes, treeVars>>

ChainTraverse ==
    /\ result = Ok
    /\ \E c \in DOMAIN chainHeap :
          ret' = Call("__traverse__", Obj("Chain", c), 0,
                      Returned("visited", Chain_traverse(chainHeap[c]), 0))
    /\ UNCHANGED <<parserVars, passes, treeVars>>

ResidueTraverse ==
    /\ result = Ok
    /\ \E r \in DOMAIN residueHeap :
          ret' = Call("__traverse__", Obj("Residue", r), 0,
                      Returned("visited", Residue_traverse(residueHeap[r]), 0))
    /\ UNCHANGED <<parserVars, passes, treeVars>>

NextContainers ==
    \/ StructureGetitem \/ ChainGetitem \/ ResidueGetitem
    \/ StructureIter \/ ChainIter \/ ResidueIter
    \/ StructureLen \/ ChainLen \/ ResidueLen
    \/ StructureNext \/ ChainNext \/ ResidueNext
    \/ StructureClear \/ ChainClear \/ ResidueClear
    \/ StructureTraverse \/ ChainTraverse \/ ResidueTraverse

ContainerSpec == InitContainers /\ [][NextContainers]_vars

---------------------------------------------------------------------------
\* The state machine of two iteration passes of the host over one container
\* instance: each pass calls __iter__ and then __next__ until it is told the
\* end; the steps of the two passes interleave, a nested loop being one of
\* the interleavings.

Tree == [structure |-> structure, chainHeap |-> chainHeap, residueHeap |-> residueHeap]

SetTree(t) ==
    /\ structure' = t.structure
    /\ chainHeap' = t.chainHeap
    /\ residueHeap' = t.residueHeap

\* __iter__ of container on
IterOf(on) ==
    CASE on.type = "Structure" -> [Tree EXCEPT !.structure = Structure_iter(@)]
      [] on.type = "Chain" -> [Tree EXCEPT !.chainHeap[on.ref] = Chain_iter(@)]
      [] on.type = "Residue" -> [Tree EXCEPT !.residueHeap[on.ref] = Residue_iter(@)]

\* __next__ of container on: the tree it leaves and what it returns
NextOf(on) ==
    CASE on.type = "Structure" ->
             [tree |-> [Tree EXCEPT !.structure = Structure_next(structure).self],
              ret  |-> Structure_next(structure).ret]
      [] on.type = "Chain" ->
             [tree |-> [Tree EXCEPT !.chainHeap[on.ref] = Chain_next(@).self],
              ret  |-> Chain_next(chainHeap[on.ref]).ret]
      [] on.type = "Residue" ->
             [tree |-> [Tree EXCEPT !.residueHeap[on.ref] = Residue_next(@).self],
              ret  |-> Residue_next(residueHeap[on.ref]).ret]

\* a pass begins, or begins again: iter(container)
PassIter ==
    /\ result = Ok
    /\ \E p \in Passes :
       \E on \in {TheStructure} \cup {Obj("Chain", c) : c \in DOMAIN chainHeap}
                                \cup {Obj("Residue", r) : r \in DOMAIN residueHeap} :
          /\ \A q \in Passes : passes[q].pc = "idle" \/ passes[q].on = on
          /\ SetTree(IterOf(on))
          /\ passes' = [passes EXCEPT ![p] = [on |-> on, pc |-> "running", got |-> <<>>]]
          /\ ret' = Call("__iter__", on, p, Returned("iterator", <<on>>, 0))
    /\ UNCHANGED <<parserVars, atomHeap>>

\* a pass advances: next(iterator), until it is told the end
PassNext ==
    /\ result = Ok
    /\ \E p \in Passes :
          /\ passes[p].pc = "running"
          /\ Len(passes[p].got) < MaxGot
          /\ LET r == NextOf(passes[p].on)
             IN  /\ SetTree(r.tree)
                 /\ passes' = [passes EXCEPT ![p] =
                                  IF r.ret.kind = "child"
                                  THEN [@ EXCEPT !.got = Append(@, r.ret.val[1])]
                                  ELSE [@ EXCEPT !.pc = "done"]]
                 /\ ret' = Call("__next__", passes[p].on, p, r.ret)
    /\ UNCHANGED <<parserVars, atomHeap>>

NextPasses == PassIter \/ PassNext

NestedSpec == InitContainers /\ [][NextPasses]_vars

---------------------------------------------------------------------------
\* Properties of the parser, checked under Spec

\* the record kind the driver dispatches a line to
RecordKind(line) ==
    IF Len(line) < 6 THEN "short"
    ELSE IF SubSeq(line, 1, 4) = "ATOM" THEN "ATOM"
    ELSE IF SubSeq(line, 1, 6) = "HETATM" THEN "HETATM"
    ELSE IF SubSeq(line, 1, 6) = "HEADER" THEN "HEADER"
    ELSE IF SubSeq(line, 1, 6) = "CRYST1" THEN "CRYST1"
    ELSE "other"

AtomKinds == {"ATOM", "HETATM"}

\* the minimum length of a record of the kind
MinLength(kind) ==
    CASE kind = "HEADER" -> 66 [] kind = "CRYST1" -> 54 [] kind \in AtomKinds -> 78

\* the error a record of the kind fails with when it is too short
TooShortError(kind) ==
    CASE kind = "HEADER" -> HeaderTooShort [] kind = "CRYST1" -> Cryst1TooShort
      [] kind \in AtomKinds -> AtomTooShort

\* every numeric field of the record decodes
NumericFieldsValid(line) ==
    CASE RecordKind(line) \in AtomKinds -> atom_fields(line, RecordKind(line)).ok
      [] RecordKind(line) = "CRYST1" -> cryst1_fields(line).ok
      [] OTHER -> TRUE

\* a check of the driver or of a classifier fails on the line
LineFails(line) ==
    \/ RecordKind(line) = "short"
    \/ /\ RecordKind(line) \in AtomKinds \cup {"HEADER", "CRYST1"}
       /\ \/ Len(line) < MinLength(RecordKind(line))
          \/ ~NumericFieldsValid(line)

\* the line the last step of the loop took, and its 0-based position
LastLine == content[Len(content)]
Taken == Len(content') = Len(content) + 1
TakenLine == content'[Len(content')]

\* a well-formed ATOM line: long enough, numeric fields that decode, and a
\* chain identifier in column 21 (a blank there is the "none yet" sentinel)
WellFormedAtom(line) ==
    /\ RecordKind(line) = "ATOM"
    /\ Len(line) >= 78
    /\ atom_fields(line, "ATOM").ok
    /\ CharAt(line, 21) # " "

\* the input read so far is one ATOM line or more of one chain and one residue
SameResidueInput ==
    /\ Len(content) >= 1
    /\ \A i \in 1..Len(content) :
          /\ WellFormedAtom(content[i])
          /\ CharAt(content[i], 21) = CharAt(content[1], 21)
          /\ atom_fields(content[i], "ATOM").residue_number
                = atom_fields(content[1], "ATOM").residue_number

\* C1: N well-formed ATOM lines of one chain and one residue number parse
\* without error into one chain of that identifier holding one residue of
\* that number holding the N atoms in the order of the lines.
C1_OneChainOneResidue ==
    SameResidueInput =>
        /\ result.kind \in {"Pending", "Ok"}
        /\ Len(structure.chains) = 1
        /\ structure.chains[1] # None
        /\ LET c == chainHeap[structure.chains[1][1]]
           IN  /\ c.name = CharAt(content[1], 21)
               /\ Len(c.residues) = 1
               /\ c.residues[1] # None
               /\ LET r == residueHeap[c.residues[1][1]]
                  IN  /\ r.number = atom_fields(content[1], "ATOM").residue_number
                      /\ Len(r.atoms) = Len(content)
                      /\ \A i \in 1..Len(content) :
                            /\ r.atoms[i] # None
                            /\ atomHeap[r.atoms[i][1]] = atom_fields(content[i], "ATOM").atom

C1_Witness ==
    /\ SameResidueInput
    /\ result = Ok
    /\ Len(content) >= 2
    /\ content[1] # content[2]

\* C2: an atom record whose chain identifier differs from the carried one
\* always starts a new chain holding one new residue holding the atom,
\* whatever its residue number.
C2_ChainChangeForcesNewChain ==
    [][(/\ Taken
        /\ RecordKind(TakenLine) \in AtomKinds
        /\ result'.kind = "Pending"
        /\ CharAt(TakenLine, 21) # current_chain_name)
       => /\ Len(structure'.chains) = Len(structure.chains) + 1
          /\ Len(chainHeap') = Len(chainHeap) + 1
          /\ chainHeap'[Len(chainHeap')].name = CharAt(TakenLine, 21)
          /\ Len(chainHeap'[Len(chainHeap')].residues) = 1
          /\ Len(residueHeap') = Len(residueHeap) + 1]_vars

\* the error, if any, is on the line just read, and on no line before it
C3_ErrorAtFirstFailingLine ==
    /\ (result.kind = "Err") <=> (Len(content) >= 1 /\ LineFails(LastLine))
    /\ result.kind = "Err" => result.line = Len(content)
    /\ \A i \in 1..(Len(content) - 1) : ~LineFails(content[i])

\* C3: the parse stops at the first line on which a check fails, with an
\* error naming that line's 1-based number; no earlier line fails a check,
\* no later line is read and the call never turns into a success.
C3_FirstErrorAborts ==
    /\ []C3_ErrorAtFirstFailingLine
    /\ [][result.kind = "Err" => vars' = vars]_vars

C3_Witness ==
    /\ result.kind = "Err"
    /\ result.msg = FieldParse
    /\ result.line = 3

carried == <<current_chain_name, current_residue_number>>

\* the fields of the record are valid: the numeric ones decode and an atom
\* record carries a chain identifier
FieldsValid(line) ==
    /\ NumericFieldsValid(line)
    /\ RecordKind(line) \in AtomKinds => CharAt(line, 21) # " "

\* what accepting the record of the line does to the Structure
AcceptedEffect(line) ==
    CASE RecordKind(line) = "HEADER" ->
            /\ structure'.pdbid = header_fields(line).pdbid
            /\ structure'.classification = header_fields(line).classification
            /\ structure'.date = header_fields(line).date
      [] RecordKind(line) = "CRYST1" ->
            structure'.unit_cell = Some(cryst1_fields(line).unit_cell)
      [] RecordKind(line) \in AtomKinds ->
            /\ Len(atomHeap') = Len(atomHeap) + 1
            /\ atomHeap'[Len(atomHeap')] = atom_fields(line, RecordKind(line)).atom

\* C4: a HEADER, CRYST1 or ATOM/HETATM line of the minimum length (66, 54,
\* 78) or more with valid fields is accepted; one shorter than the minimum
\* fails with the record-too-short error of its kind naming its 1-based
\* number, whatever its fields hold, and leaves the Structure and the
\* carried state as they were.
C4_LengthCheckedFirst ==
    [][(Taken /\ RecordKind(TakenLine) \in AtomKinds \cup {"HEADER", "CRYST1"})
       => /\ Len(TakenLine) < MinLength(RecordKind(TakenLine))
             => /\ result' = [kind |-> "Err", line |-> Len(content) + 1,
                              msg |-> TooShortError(RecordKind(TakenLine))]
                /\ UNCHANGED <<treeVars, carried>>
          /\ (Len(TakenLine) >= MinLength(RecordKind(TakenLine)) /\ FieldsValid(TakenLine))
             => /\ result' = Pending
                /\ AcceptedEffect(TakenLine)]_vars

C4_Witness ==
    /\ Len(content) = 2
    /\ RecordKind(content[1]) \in AtomKinds \cup {"HEADER", "CRYST1"}
    /\ Len(content[1]) = MinLength(RecordKind(content[1]))
    /\ content[2] = SubSeq(LineBadSerial, 1, 77)
    /\ result = [kind |-> "Err", line |-> 2, msg |-> AtomTooShort]

\* the lines of the input that the driver dispatches
Dispatched(lines) == SelectSeq(lines, LAMBDA l : RecordKind(l) # "other")

\* the tree is the one built from the dispatched lines alone
C5_TreeAsIfAbsent ==
    result.kind \in {"Pending", "Ok"} =>
        LET without == parse_pdb(Dispatched(content))
        IN  /\ without.result = Ok
            /\ without.w = PS.w
            /\ without.current_chain_name = current_chain_name
            /\ without.current_residue_number = current_residue_number

\* C5: a line of 6 characters or more whose label is none of ATOM, HETATM,
\* HEADER, CRYST1 causes no error and changes neither the Structure nor the
\* carried state; the tree built is the one built from the input without
\* such lines.
C5_OtherLabelIgnored ==
    /\ []C5_TreeAsIfAbsent
    /\ [][(Taken /\ RecordKind(TakenLine) = "other")
          => /\ result' = Pending
             /\ UNCHANGED <<treeVars, carried>>]_vars

C5_Witness ==
    /\ result = Ok
    /\ Len(content) = 3
    /\ RecordKind(content[1]) = "ATOM"
    /\ RecordKind(content[2]) = "other"
    /\ RecordKind(content[3]) = "ATOM"
    /\ Len(residueHeap) = 1
    /\ Len(residueHeap[1].atoms) = 2

\* C6: a line shorter than 6 characters, whatever it holds, ends the parse
\* with the label error naming its 1-based number, before any dispatch on
\* its label, and leaves the Structure and the carried state as they were.
C6_ShortLineAborts ==
    [][(Taken /\ Len(TakenLine) < 6)
       => /\ result' = [kind |-> "Err", line |-> Len(content) + 1, msg |-> LabelTooShort]
          /\ UNCHANGED <<treeVars, carried>>]_vars

C6_Witness ==
    /\ Len(content) >= 2
    /\ LastLine = "ATOM"
    /\ result = [kind |-> "Err", line |-> Len(content), msg |-> LabelTooShort]

\* the header fields and the unit cells written in the lines of the inputs
HeaderOf(line) ==
    IF SubSeq(line, 63, 66) = "1ZHY"
    THEN [pdbid |-> "1ZHY", classification |-> "LIPID BINDING PROTEIN", date |-> "26-APR-05"]
    ELSE [pdbid |-> "2ABC", classification |-> "HYDROLASE", date |-> "01-JAN-99"]

CellOf(line) ==
    IF Len(line) = 54
    THEN UnitCell_new(<<52, 0>>, <<586, 1>>, <<619, 1>>, <<90, 0>>, <<90, 0>>, <<90, 0>>)
    ELSE UnitCell_new(<<105, 1>>, <<20, 0>>, <<30, 0>>, <<90, 0>>, <<10125, 2>>, <<90, 0>>)

\* the position of the last line of the kind in the input read so far, or 0
LastOfKind(kind) ==
    LET at == {i \in 1..Len(content) : RecordKind(content[i]) = kind}
    IN  IF at = {} THEN 0 ELSE CHOOSE i \in at : \A j \in at : j <= i

\* the header fields and the unit cell are those of the last record of the kind
C7_HeaderAndCellOfLastRecord ==
    result.kind \in {"Pending", "Ok"} =>
        /\ LET h == LastOfKind("HEADER")
               f == IF h = 0 THEN [pdbid |-> "", classification |-> "", date |-> ""]
                    ELSE HeaderOf(content[h])
           IN  /\ structure.pdbid = f.pdbid
               /\ structure.classification = f.classification
               /\ structure.date = f.date
        /\ LET c == LastOfKind("CRYST1")
           IN  structure.unit_cell = IF c = 0 THEN None ELSE Some(CellOf(content[c]))

\* C7: while the parse has not failed, the header fields are those of the
\* last HEADER line read (empty strings if there is none) and the unit cell
\* is that of the last CRYST1 line read (absent if there is none); HEADER
\* and CRYST1 lines change neither the chains nor the carried state.
C7_LastWriterWins ==
    /\ []C7_HeaderAndCellOfLastRecord
    /\ [][(Taken /\ RecordKind(TakenLine) \in {"HEADER", "CRYST1"})
          => /\ structure'.chains = structure.chains
             /\ UNCHANGED <<chainHeap, residueHeap, atomHeap, carried>>]_vars

C7_Witness ==
    /\ result = Ok
    /\ Len(content) = 3
    /\ RecordKind(content[1]) = "CRYST1"
    /\ RecordKind(content[2]) \in AtomKinds
    /\ RecordKind(content[3]) = "CRYST1"
    /\ content[1] # content[3]

---------------------------------------------------------------------------
\* Properties of the containers, checked under ContainerSpec

\* the slots of a container of the tree <<s, ch, rh>>
SlotsIn(s, ch, rh, on) ==
    CASE on.type = "Structure" -> s.chains
      [] on.type = "Chain" -> ch[on.ref].residues
      [] on.type = "Residue" -> rh[on.ref].atoms

SlotsOf(on) == SlotsIn(structure, chainHeap, residueHeap, on)

ChildType(on) ==
    CASE on.type = "Structure" -> "Chain"
      [] on.type = "Chain" -> "Residue"
      [] on.type = "Residue" -> "Atom"

Containers ==
    {TheStructure} \cup {Obj("Chain", c) : c \in DOMAIN chainHeap}
                   \cup {Obj("Residue", r) : r \in DOMAIN residueHeap}

NoneCleared(slots) == \A i \in 1..Len(slots) : slots[i] # None
AllCleared(slots)  == \A i \in 1..Len(slots) : slots[i] = None

\* C8: __getitem__(i) on a cleared slot, i < length, signals the
\* out-of-range error of an index >= length.
C8_ClearedSlotIsOutOfRange ==
    (/\ ret.op = "__getitem__"
     /\ ret.arg < Len(SlotsOf(ret.on))
     /\ SlotsOf(ret.on)[ret.arg + 1] = None)
    => ret.kind = "IndexError"

\* what __getitem__ returned on a container with no cleared slot
C9_GetitemReturnsSlot ==
    (ret.op = "__getitem__" /\ NoneCleared(SlotsOf(ret.on))) =>
        LET slots == SlotsOf(ret.on)
        IN  /\ \A j, k \in 1..Len(slots) : j < k => slots[j][1] < slots[k][1]
            /\ IF ret.arg < Len(slots)
               THEN /\ ret.kind = "child"
                    /\ ret.val = <<Obj(ChildType(ret.on), slots[ret.arg + 1][1])>>
               ELSE /\ ret.kind = "IndexError"
                    /\ ret.val = <<>>

\* C9: on a container with no cleared slot, __getitem__(i) returns the child
\* stored at position i, the i-th appended, when i < length and fails with
\* the out-of-range error when i >= length; it changes no slot and no cursor.
C9_IndexedAccess ==
    /\ []C9_GetitemReturnsSlot
    /\ [][ret'.op = "__getitem__" => UNCHANGED treeVars]_vars

C9_Witness ==
    /\ ret.op = "__getitem__"
    /\ ret.on.type = "Chain"
    /\ ret.arg = 1
    /\ ret.kind = "child"
    /\ residueHeap[ret.val[1].ref].number = 11

\* what __len__ returned and what __clear__ left
C10_AllSlotsAbsent ==
    /\ ret.op = "__len__" => ret.n = Len(SlotsOf(ret.on))
    /\ ret.op = "__clear__" =>
          /\ AllCleared(SlotsOf(ret.on))
          /\ CASE ret.on.type = "Structure" ->
                     /\ structure.unit_cell = None
                     /\ Structure_clear(structure) = structure
               [] ret.on.type = "Chain" ->
                     Chain_clear(chainHeap[ret.on.ref]) = chainHeap[ret.on.ref]
               [] ret.on.type = "Residue" ->
                     Residue_clear(residueHeap[ret.on.ref]) = residueHeap[ret.on.ref]

\* C10: __clear__ leaves every slot of the container absent (and, for the
\* Structure, no unit cell), a second call leaves that same state, and no
\* call changes the length of a container: __len__ returns the count of
\* slots, cleared ones included.
C10_ClearIdempotent ==
    /\ []C10_AllSlotsAbsent
    /\ [][/\ \A on \in Containers :
               Len(SlotsIn(structure', chainHeap', residueHeap', on)) = Len(SlotsOf(on))
          /\ (ret.op = "__clear__" /\ ret'.op = "__clear__" /\ ret'.on = ret.on)
                => UNCHANGED treeVars]_vars

C10_Witness ==
    /\ ret.op = "__clear__"
    /\ ret.on = TheStructure
    /\ LastOfKind("CRYST1") > 0
    /\ Len(structure.chains) = 1
    /\ \E c \in DOMAIN chainHeap : Len(chainHeap[c].residues) = 2 /\ AllCleared(chainHeap[c].residues)

\* the cursor of a container of the tree <<s, ch, rh>>
CursorIn(s, ch, rh, on) ==
    CASE on.type = "Structure" -> s.current_index
      [] on.type = "Chain" -> ch[on.ref].current_index
      [] on.type = "Residue" -> rh[on.ref].current_index

CursorOf(on) == CursorIn(structure, chainHeap, residueHeap, on)

CursorAfter(on) == CursorIn(structure', chainHeap', residueHeap', on)

C11_CursorWithinLength ==
    \A on \in Containers : CursorOf(on) <= Len(SlotsOf(on))

\* one call, seen from container on: __iter__ puts the cursor at 0; __next__
\* on a container with no cleared slot returns the child under the cursor and
\* moves the cursor by one, or signals the end and leaves the cursor at the
\* length; no other call, and no call on another container, moves the cursor
C11_PassStep(on) ==
    LET slots == SlotsOf(on)
        cur == CursorOf(on)
    IN  /\ (ret'.op = "__iter__" /\ ret'.on = on) => CursorAfter(on) = 0
        /\ (ret'.op = "__next__" /\ ret'.on = on /\ NoneCleared(slots)) =>
               IF cur < Len(slots)
               THEN /\ ret'.kind = "child"
                    /\ ret'.val = <<Obj(ChildType(on), slots[cur + 1][1])>>
                    /\ CursorAfter(on) = cur + 1
               ELSE /\ ret'.kind = "StopIteration"
                    /\ ret'.val = <<>>
                    /\ cur = Len(slots)
                    /\ CursorAfter(on) = cur
        /\ (ret'.op \notin {"__iter__", "__next__"} \/ ret'.on # on) =>
               CursorAfter(on) = cur

\* C11: on a container with no cleared slot, after __iter__ the successive
\* __next__ calls return the children at indices 0, 1, ..., length-1 in that
\* order and then signal end-of-sequence; every further __next__ without a
\* new __iter__ signals end-of-sequence again, and the cursor never exceeds
\* the length.
C11_SingleCursorPass ==
    /\ []C11_CursorWithinLength
    /\ [][\A on \in Containers : C11_PassStep(on)]_vars

C11_Witness ==
    /\ ret.op = "__next__"
    /\ ret.kind = "StopIteration"
    /\ ret.on.type = "Residue"
    /\ Len(SlotsOf(ret.on)) = 2
    /\ NoneCleared(SlotsOf(ret.on))
    /\ CursorOf(ret.on) = 2

---------------------------------------------------------------------------
\* Properties of two passes over one container, checked under NestedSpec

\* the iterator __iter__ hands out is the container itself, rewound
C12_IteratorIsTheContainer ==
    ret.op = "__iter__" =>
        /\ ret.kind = "iterator"
        /\ ret.val = <<ret.on>>
        /\ CursorOf(ret.on) = 0

\* one call of a pass: __iter__ rewinds whatever the passes in progress have
\* received; the __next__ after an __iter__ returns the child at index 0 to
\* the pass that calls it; the __next__ after an end-of-sequence is an
\* end-of-sequence too, and the pass that calls it ends with what it had
C12_SharedStep ==
    LET on == ret'.on
        slots == SlotsOf(on)
        p == ret'.arg
    IN  /\ ret'.op = "__iter__" => CursorAfter(on) = 0
        /\ (ret.op = "__iter__" /\ ret'.op = "__next__" /\ Len(slots) > 0) =>
               /\ ret'.kind = "child"
               /\ ret'.val = <<Obj(ChildType(on), slots[1][1])>>
               /\ passes'[p].got = Append(passes[p].got, ret'.val[1])
        /\ (ret.op = "__next__" /\ ret.kind = "StopIteration" /\ ret'.op = "__next__") =>
               /\ ret'.kind = "StopIteration"
               /\ passes'[p].pc = "done"
               /\ passes'[p].got = passes[p].got

\* C12: two passes over one container instance share one cursor: __iter__
\* after k __next__ calls of a pass in progress puts the cursor at zero, so
\* the following __next__ returns the child at index 0 to whichever pass
\* calls it; once one pass has reached end-of-sequence the next advance of
\* the other pass signals end-of-sequence too, whatever it has left unvisited.
C12_PassesShareCursor ==
    /\ []C12_IteratorIsTheContainer
    /\ [][C12_SharedStep]_vars

\* the nested loop over a chain of two residues: the inner pass saw both, the
\* outer pass was told the end after its first
C12_Witness ==
    /\ ret.op = "__next__"
    /\ ret.arg = "outer"
    /\ ret.kind = "StopIteration"
    /\ ret.on.type = "Chain"
    /\ Len(SlotsOf(ret.on)) = 2
    /\ passes["outer"].on = passes["inner"].on
    /\ passes["outer"].pc = "done"
    /\ Len(passes["outer"].got) = 1
    /\ passes["inner"].pc = "done"
    /\ Len(passes["inner"].got) = 2

---------------------------------------------------------------------------
\* Properties of the builder, checked under Spec

\* the loop takes an ATOM/HETATM record that decodes
AtomTaken ==
    /\ Taken
    /\ RecordKind(TakenLine) \in AtomKinds
    /\ Len(TakenLine) >= ATOM_MIN
    /\ atom_fields(TakenLine, RecordKind(TakenLine)).ok

\* its decoded fields
Decoded == atom_fields(TakenLine, RecordKind(TakenLine))

\* the handles of the last chain and of its last residue, before the step
LastChain == LastRef(structure.chains)
LastResidue == LastRef(chainHeap[LastChain].residues)

\* C13: an ATOM/HETATM record whose decoded residue number equals the carried
\* residue number is appended to the last residue of the last chain; no
\* residue and no chain is created and neither carried scalar changes,
\* whatever the chain identifier and the residue name of the record.
C13_SameNumberJoinsLastResidue ==
    [][(AtomTaken /\ Decoded.residue_number = current_residue_number)
       => /\ result' = Pending
          /\ LastOwned(structure.chains)
          /\ LastOwned(chainHeap[LastChain].residues)
          /\ atomHeap' = Append(atomHeap, Decoded.atom)
          /\ residueHeap' = [residueHeap EXCEPT ![LastResidue].atoms =
                                Append(@, Some(Len(atomHeap) + 1))]
          /\ UNCHANGED <<structure, chainHeap, carried>>]_vars

\* a record of another chain and another residue name joined the residue
\* before it
C13_Witness ==
    /\ content = <<LineA10N, LineB10>>
    /\ result = Pending
    /\ CharAt(content[2], 21) # CharAt(content[1], 21)
    /\ Slice(content[2], 17, 20) # Slice(content[1], 17, 20)
    /\ Len(structure.chains) = 1
    /\ Len(residueHeap) = 1
    /\ Len(residueHeap[1].atoms) = 2
    /\ atomHeap[residueHeap[1].atoms[2][1]] = atom_fields(LineB10, "ATOM").atom

\* the residue and the chain a record starts, holding the one new atom
NewResidue == [Residue_new(Decoded.residue_number, Decoded.residue_name)
                 EXCEPT !.atoms = <<Some(Len(atomHeap) + 1)>>]
NewChain == [Chain_new(Decoded.chain_name) EXCEPT !.residues = <<Some(Len(residueHeap) + 1)>>]

\* rule 2: the last chain gains the new residue, only the carried number moves
C14_Rule2 ==
    /\ result' = Pending
    /\ LastOwned(structure.chains)
    /\ structure' = structure
    /\ chainHeap' = [chainHeap EXCEPT ![LastChain].residues =
                        Append(@, Some(Len(residueHeap) + 1))]
    /\ residueHeap' = Append(residueHeap, NewResidue)
    /\ atomHeap' = Append(atomHeap, Decoded.atom)
    /\ current_residue_number' = Decoded.residue_number
    /\ UNCHANGED current_chain_name

\* rule 3: the Structure gains the new chain, both carried scalars move
C14_Rule3 ==
    /\ result' = Pending
    /\ structure' = [structure EXCEPT !.chains = Append(@, Some(Len(chainHeap) + 1))]
    /\ chainHeap' = Append(chainHeap, NewChain)
    /\ residueHeap' = Append(residueHeap, NewResidue)
    /\ atomHeap' = Append(atomHeap, Decoded.atom)
    /\ current_chain_name' = Decoded.chain_name
    /\ current_residue_number' = Decoded.residue_number

\* C14: an ATOM/HETATM record whose residue number differs from the carried
\* one, (rule 2) when its chain identifier equals the carried one, leaves the
\* number of chains as it was, gives the last chain one new residue of the
\* decoded number and name holding the new atom only, and updates the carried
\* number only; (rule 3) otherwise appends one chain of the decoded
\* identifier holding one residue holding the new atom and updates both
\* carried scalars.  Everything built before is unchanged.
C14_NewResidueOrNewChain ==
    [][(AtomTaken /\ Decoded.residue_number # current_residue_number)
       => IF Decoded.chain_name = current_chain_name THEN C14_Rule2 ELSE C14_Rule3]_vars

\* the two rules hold for every record but a first atom record whose chain
\* identifier is blank
RulesHoldOnceAChainExists ==
    [][(/\ AtomTaken
        /\ Decoded.residue_number # current_residue_number
        /\ ~(structure.chains = <<>> /\ Decoded.chain_name = " "))
       => IF Decoded.chain_name = current_chain_name THEN C14_Rule2 ELSE C14_Rule3]_vars

\* the ATOM/HETATM records read so far, their chain identifiers and numbers
AtomRecords == SelectSeq(content, LAMBDA l : RecordKind(l) \in AtomKinds)
ChainIdOf(line) == CharAt(line, 21)
NumberOf(line) == atom_fields(line, RecordKind(line)).residue_number

\* records 1..a are of one chain, a+1..b of another, b+1.. of the first again,
\* and each switch comes with a residue number other than the one before it
ThreeRuns(recs, a, b) ==
    /\ \A i \in 1..a : ChainIdOf(recs[i]) = ChainIdOf(recs[1])
    /\ \A i \in (a + 1)..b : ChainIdOf(recs[i]) = ChainIdOf(recs[a + 1])
    /\ \A i \in (b + 1)..Len(recs) : ChainIdOf(recs[i]) = ChainIdOf(recs[1])
    /\ ChainIdOf(recs[a + 1]) # ChainIdOf(recs[1])
    /\ NumberOf(recs[a + 1]) # NumberOf(recs[a])
    /\ NumberOf(recs[b + 1]) # NumberOf(recs[b])

\* the names of the chains of the Structure, in order
ChainNames == [i \in 1..Len(structure.chains) |-> chainHeap[structure.chains[i][1]].name]

C15_ThreeChains ==
    result.kind \in {"Pending", "Ok"} =>
        \A a \in 1..Len(AtomRecords), b \in 1..Len(AtomRecords) :
            (a < b /\ b < Len(AtomRecords) /\ ThreeRuns(AtomRecords, a, b)) =>
                ChainNames = <<ChainIdOf(AtomRecords[1]), ChainIdOf(AtomRecords[a + 1]),
                               ChainIdOf(AtomRecords[1])>>

\* a step of the loop leaves every chain but the last, every residue but the
\* last of the last chain, and every slot and atom there was, as they were
C15_OnlyTheLastGrows ==
    Taken =>
        /\ SubSeq(structure'.chains, 1, Len(structure.chains)) = structure.chains
        /\ SubSeq(atomHeap', 1, Len(atomHeap)) = atomHeap
        /\ \A c \in DOMAIN chainHeap :
               /\ SubSeq(chainHeap'[c].residues, 1, Len(chainHeap[c].residues))
                     = chainHeap[c].residues
               /\ c # LastChain => chainHeap'[c] = chainHeap[c]
        /\ \A r \in DOMAIN residueHeap :
               /\ SubSeq(residueHeap'[r].atoms, 1, Len(residueHeap[r].atoms))
                     = residueHeap[r].atoms
               /\ r # LastResidue => residueHeap'[r] = residueHeap[r]

\* C15: atom records of chain X, then of chain Y, then of chain X again, each
\* switch with a residue number other than the previous record's, leave
\* three chains X, Y, X in input order; the builder appends to no chain and
\* no residue other than the last one.
C15_NoMergeOfSplitChain ==
    /\ []C15_ThreeChains
    /\ [][C15_OnlyTheLastGrows]_vars

C15_Witness ==
    /\ content = <<LineA10N, LineB11, LineA10N>>
    /\ result = Ok
    /\ ThreeRuns(AtomRecords, 1, 2)
    /\ ChainNames = <<"A", "B", "A">>
    /\ Len(chainHeap) = 3
    /\ Len(chainHeap[1].residues) = 1
    /\ Len(residueHeap[1].atoms) = 1

---------------------------------------------------------------------------
\* Properties of the collector hooks, checked under ContainerSpec

\* C16: whatever __iter__, __next__ and __clear__ calls came before, a
\* __next__ on a container of one slot or more never aborts and never returns
\* a cleared child: it returns a child the container owns or signals
\* end-of-sequence.
C16_NextSkipsClearedSlots ==
    (ret.op = "__next__" /\ Len(SlotsOf(ret.on)) >= 1) =>
        \/ ret.kind = "StopIteration"
        \/ /\ ret.kind = "child"
           /\ \E i \in 1..Len(SlotsOf(ret.on)) :
                 SlotsOf(ret.on)[i] = Some(ret.val[1].ref)

\* the positions of the slots that hold a child
OwnedAt(slots) == {i \in 1..Len(slots) : slots[i] # None}

\* visited is the children of the owned slots, each once, in slot order
VisitsOwnedInOrder(visited, slots, type) ==
    /\ Len(visited) = Cardinality(OwnedAt(slots))
    /\ \A i \in OwnedAt(slots) :
          visited[Cardinality({j \in OwnedAt(slots) : j <= i})] = Obj(type, slots[i][1])

\* what __traverse__ visited
C17_VisitsOwnedChildren ==
    ret.op = "__traverse__" =>
        IF ret.on = TheStructure /\ structure.unit_cell # None
        THEN /\ Len(ret.val) >= 1
             /\ Head(ret.val) = TheUnitCell
             /\ VisitsOwnedInOrder(Tail(ret.val), SlotsOf(ret.on), ChildType(ret.on))
        ELSE VisitsOwnedInOrder(ret.val, SlotsOf(ret.on), ChildType(ret.on))

\* C17: __traverse__ of a container visits each child it owns exactly once,
\* in slot order, and no absent slot; for the Structure it also visits the
\* unit cell when there is one; it changes no slot and no cursor, and after
\* __clear__ has run on the container it visits nothing.
C17_TraverseVisitsOwned ==
    /\ []C17_VisitsOwnedChildren
    /\ [][/\ ret'.op = "__traverse__" => UNCHANGED treeVars
          /\ (ret.op = "__clear__" /\ ret'.op = "__traverse__" /\ ret'.on = ret.on)
                => ret'.val = <<>>]_vars

C17_Witness ==
    /\ ret.op = "__traverse__"
    /\ ret.on = TheStructure
    /\ structure.unit_cell # None
    /\ ret.val = <<TheUnitCell, Obj("Chain", 1)>>
    /\ Len(chainHeap[1].residues) = 2
    /\ AllCleared(chainHeap[1].residues)

---------------------------------------------------------------------------
\* Properties of the builder state, checked under Spec

\* C18: the first ATOM/HETATM record of an input takes the new-chain branch,
\* whatever character column 21 holds (a blank included) and whatever
\* residue number it decodes to: the initial carried values ' ' and
\* isize::MIN match no first record, so add_residue and add_atom are never
\* called on a Structure without a chain.
C18_FirstRecordStartsChain ==
    [][(AtomTaken /\ structure.chains = <<>>)
       => /\ Decoded.residue_number # current_residue_number
          /\ Decoded.chain_name # current_chain_name
          /\ result' = Pending
          /\ Len(structure'.chains) = 1
          /\ chainHeap' = <<NewChain>>]_vars

\* the chains of the Structure and the residues of a chain, as objects
ChainAt(i) == chainHeap[structure.chains[i][1]]
ResidueAt(c, i) == residueHeap[c.residues[i][1]]

\* C19: after every line processed without failure, when the Structure has a
\* chain the carried chain identifier is the name of the last chain and the
\* carried residue number is the number of the last residue of the last
\* chain; hence no two adjacent chains have the same name and no two
\* adjacent residues of a chain the same number.
C19_CarriedStateIsLastChild ==
    (result.kind \in {"Pending", "Ok"} /\ Len(structure.chains) >= 1) =>
        /\ LastOwned(structure.chains)
        /\ current_chain_name = chainHeap[LastChain].name
        /\ LastOwned(chainHeap[LastChain].residues)
        /\ current_residue_number = residueHeap[LastResidue].number
        /\ \A i \in 1..(Len(structure.chains) - 1) : ChainAt(i).name # ChainAt(i + 1).name
        /\ \A i \in 1..Len(structure.chains) :
              \A j \in 1..(Len(ChainAt(i).residues) - 1) :
                  ResidueAt(ChainAt(i), j).number # ResidueAt(ChainAt(i), j + 1).number

C19_Witness ==
    /\ content = <<LineA10N, LineA11, LineB10>>
    /\ result = Pending
    /\ Len(structure.chains) = 2
    /\ Len(ChainAt(1).residues) = 2
    /\ current_chain_name = "B"
    /\ current_residue_number = 10

\* the atoms of a residue, of the residues of a chain from the i-th on and of
\* the chains of the Structure from the i-th on, in slot order
AtomsOfResidue(r) == [i \in 1..Len(r.atoms) |-> atomHeap[r.atoms[i][1]]]

RECURSIVE AtomsOfResidues(_, _)
AtomsOfResidues(c, i) ==
    IF i > Len(c.residues) THEN <<>>
    ELSE AtomsOfResidue(ResidueAt(c, i)) \o AtomsOfResidues(c, i + 1)

RECURSIVE AtomsOfChains(_)
AtomsOfChains(i) ==
    IF i > Len(structure.chains) THEN <<>>
    ELSE AtomsOfResidues(ChainAt(i), 1) \o AtomsOfChains(i + 1)

\* C20: after every line processed without failure, every chain has a
\* residue, every residue has an atom, no slot is absent, and the atoms of
\* the tree, read chain by chain and residue by residue, are the atoms of the
\* ATOM/HETATM lines processed so far, in input order.
C20_AtomsConserved ==
    result.kind \in {"Pending", "Ok"} =>
        /\ NoneCleared(structure.chains)
        /\ \A c \in DOMAIN chainHeap :
              Len(chainHeap[c].residues) >= 1 /\ NoneCleared(chainHeap[c].residues)
        /\ \A r \in DOMAIN residueHeap :
              Len(residueHeap[r].atoms) >= 1 /\ NoneCleared(residueHeap[r].atoms)
        /\ Len(chainHeap) = Len(structure.chains)
        /\ Len(atomHeap) = Len(AtomRecords)
        /\ AtomsOfChains(1) =
              [i \in 1..Len(AtomRecords) |->
                  atom_fields(AtomRecords[i], RecordKind(AtomRecords[i])).atom]

C20_Witness ==
    /\ content = <<LineA10N, LineCryst1, LineB11>>
    /\ result = Ok
    /\ Len(structure.chains) = 2
    /\ Len(AtomsOfChains(1)) = 2
    /\ AtomsOfChains(1)[2].label = "HETATM"

=============================================================================
